---- MODULE Spec2Model ----
(***************************************************************************)
(* Model of the uinput virtual-device builder and device of src/uinput.rs  *)
(* and of the attribute-set iteration of src/attribute_set.rs it consumes. *)
(*                                                                         *)
(* One control handle is followed through its life: opened by              *)
(* VirtualDeviceBuilder::new, configured by name / input_id / with_keys /  *)
(* with_relative_axes, consumed by build (VirtualDevice::new), written to  *)
(* by emit, and released when the value that owns it is dropped.           *)
(*                                                                         *)
(* The kernel is the environment: every ioctl and every write system call  *)
(* may succeed or fail, and a write may accept any prefix of its buffer.   *)
(* Buffers are kept at record granularity (the kernel consumes whole       *)
(* input_event records).                                                   *)
(***************************************************************************)
EXTENDS Integers, Sequences, FiniteSets, TLC

VARIABLES
    builder,    \* the VirtualDeviceBuilder value: [some, name, id]
    device,     \* TRUE iff a VirtualDevice value exists (it owns the handle)
    fileOpen,   \* TRUE iff the control handle is open
    live,       \* kernel: TRUE iff the virtual device is registered
    wire,       \* kernel: the records accepted from writes on the handle
    issued,     \* the kernel calls issued by the last operation, in order
    last,       \* the last operation and what it returned: [op, res, err]
    arg,        \* the input of the last operation: [set, messages, self]
    declFailed, \* TRUE iff a capability declaration on the handle has failed
    nSetup,     \* UI_DEV_SETUP calls issued on the handle so far
    nCreate,    \* UI_DEV_CREATE calls issued on the handle so far
    setupDone,  \* TRUE iff a UI_DEV_SETUP call on the handle has succeeded
    bitslice,   \* the bit buffer behind the AttributeSet that is queried
    answer      \* the last query on the AttributeSet and what it returned

vars == <<builder, device, fileOpen, live, wire, issued, last, arg,
          declFailed, nSetup, nCreate, setupDone, bitslice, answer>>

----------------------------------------------------------------------------
(* Bounds of the model *)

MaxBits == 2
MaxBatch == 2
MaxSyscalls == 2
MaxWire == 2
MaxShortName == 1
MaxOverlong == 1
MaxSliceBits == 3

----------------------------------------------------------------------------
(* Program constants *)

BUS_USB == 3
UINPUT_MAX_NAME_SIZE == 80
EV_SYN == 0
EV_KEY == 1
EV_REL == 2
CodeModulus == 65536

DEFAULT_ID == [bustype |-> BUS_USB, vendor |-> 4660, product |-> 22136, version |-> 273]

Min(a, b) == IF a < b THEN a ELSE b

\* The sequences over S of length at most n.
RECURSIVE SeqsUpTo(_, _)
SeqsUpTo(S, n) ==
    IF n = 0 THEN {<<>>}
    ELSE LET shorter == SeqsUpTo(S, n - 1)
         IN  shorter \cup {Append(s, x) : s \in {t \in shorter : Len(t) = n - 1}, x \in S}

----------------------------------------------------------------------------
(* Inputs *)

\* Errors the kernel may return from an open or an ioctl, and from a write
\* (besides EINTR).
Errnos == {"EINVAL", "EPERM"}
WriteErrnos == {"EIO"}

\* Bit buffers behind an attribute set: position i+1 holds the bit of index i.
BitBufs == SeqsUpTo(BOOLEAN, MaxBits)

\* Bit buffers an attribute set queried on its own may borrow.
Slices == SeqsUpTo(BOOLEAN, MaxSliceBits)

\* Names a caller may pass: short ones and ones around the kernel's limit.
NameLens == (0..MaxShortName) \cup
            ((UINPUT_MAX_NAME_SIZE - 2)..(UINPUT_MAX_NAME_SIZE - 1 + MaxOverlong))
RECURSIVE NameOfLen(_)
NameOfLen(L) == IF L = 0 THEN <<>> ELSE Append(NameOfLen(L - 1), 65 + (L % 26))
Names == {NameOfLen(L) : L \in NameLens}

\* Identifications a caller may pass to input_id.
InputIds == {DEFAULT_ID, [bustype |-> 6, vendor |-> 1, product |-> 2, version |-> 3]}

\* Events a caller may pass to emit.
Events == {[type |-> EV_KEY, code |-> 30, value |-> 1],
           [type |-> EV_REL, code |-> 0, value |-> -1]}
Batches == SeqsUpTo(Events, MaxBatch)

----------------------------------------------------------------------------
(* Values *)

NoId == [some |-> FALSE, id |-> DEFAULT_ID]
NoBuilder == [some |-> FALSE, name |-> <<>>, id |-> NoId]

\* One kernel call: ok is its outcome, n the records a write accepted.
NoSetup == [id |-> DEFAULT_ID, name |-> <<>>, ff_effects_max |-> 0]

\* One kernel call on the handle.  code is the integer parameter of an ioctl,
\* usetup the record passed to UI_DEV_SETUP, buf the buffer of a write; ok is
\* the call's outcome, n the number of records a write accepted.
ioctl(op, code, ok, e) ==
    [op |-> op, code |-> code, usetup |-> NoSetup, buf |-> <<>>,
     ok |-> ok, n |-> 0, err |-> IF ok THEN "" ELSE e]
ioctl_setup(usetup, ok, e) ==
    [op |-> "UI_DEV_SETUP", code |-> 0, usetup |-> usetup, buf |-> <<>>,
     ok |-> ok, n |-> 0, err |-> IF ok THEN "" ELSE e]
write(buf, ok, n, err) ==
    [op |-> "write", code |-> 0, usetup |-> NoSetup, buf |-> buf,
     ok |-> ok, n |-> n, err |-> err]

\* The inputs of an operation, as kept in arg.
NoArg == [set |-> <<>>, messages |-> <<>>, self |-> NoBuilder, id |-> DEFAULT_ID]
IdArg(id) == [NoArg EXCEPT !.id = id]
SetArg(bits) == [NoArg EXCEPT !.set = bits]
MessagesArg(messages) == [NoArg EXCEPT !.messages = messages]
SelfArg(self) == [NoArg EXCEPT !.self = self]

\* A query on an attribute set: attr is the code passed to contains or
\* to_index, index the index to_index returned or from_index was passed,
\* found what contains returned, back the code from_index returned (ofLast:
\* it was passed the index the to_index call just before returned); yielded
\* is what the last iter() yielded, kept while iterated.
NoAnswer == [op |-> "none", attr |-> 0, index |-> 0, found |-> FALSE,
             back |-> 0, ofLast |-> FALSE, iterated |-> FALSE, yielded |-> <<>>]

\* What an operation returned and the kernel calls it issued.
Ok(calls) == [res |-> "Ok", err |-> "", calls |-> calls]
Err(e, calls) == [res |-> "Err", err |-> e, calls |-> calls]

\* Results of the builder's chaining operations: self is the builder handed
\* back (Ok(self)), or NoBuilder when it was dropped.
BuilderOk(calls, self) == [res |-> "Ok", err |-> "", calls |-> calls, self |-> self]
BuilderErr(e, calls, self) == [res |-> "Err", err |-> e, calls |-> calls, self |-> self]

\* Results of build: dev is TRUE iff a VirtualDevice was constructed.
DeviceOk(calls) == [res |-> "Ok", err |-> "", calls |-> calls, dev |-> TRUE]
DeviceErr(e, calls) == [res |-> "Err", err |-> e, calls |-> calls, dev |-> FALSE]
DevicePanic == [res |-> "Panic", err |-> "assertion failed", calls |-> <<>>, dev |-> FALSE]

IsDecl(c) == c.op \in {"UI_SET_EVBIT", "UI_SET_KEYBIT", "UI_SET_RELBIT"}

\* The records the kernel accepted from a sequence of calls.
RECURSIVE Accepted(_)
Accepted(calls) ==
    IF calls = <<>> THEN <<>>
    ELSE LET c == Head(calls)
         IN (IF c.op = "write" /\ c.ok THEN SubSeq(c.buf, 1, c.n) ELSE <<>>)
            \o Accepted(Tail(calls))

----------------------------------------------------------------------------
(* attribute_set.rs *)

\* Codes a caller may ask an attribute set about: the indices of a buffer,
\* the first index beyond the longest buffer, and the largest code.
Codes == (0..MaxSliceBits) \cup {CodeModulus - 1}

\* Indices (usize) from_index may be handed: those of the codes, and the
\* first ones beyond the code type's range.
Indices == Codes \cup {CodeModulus, CodeModulus + 1}

\* Variant: the code type is taken to be 8 bits wide.
from_index_u8(i) == i % 256

\* Variant: the code type is taken to be 1 bit wide.
from_index_narrow(i) == i % 2

\* from_index(i): Self(i as _), the index truncated to the code's width.
from_index(i) == i % CodeModulus

\* to_index(self): self.0 as usize, the code zero-extended.
to_index(c) == c

\* Variant: an index beyond the buffer counts as contained.
contains_beyond(bits, attr) ==
    LET i == to_index(attr)
    IN  IF i < Len(bits) THEN bits[i + 1] ELSE TRUE

\* contains(attr): bitslice.get(attr.to_index()).map_or(false, |b| *b)
contains(bits, attr) ==
    LET i == to_index(attr)
    IN  IF i < Len(bits) THEN bits[i + 1] ELSE FALSE

\* iter(): the codes of the set bits, in ascending index order.
RECURSIVE iter_from(_, _)
iter_from(bits, i) ==
    IF i >= Len(bits) THEN <<>>
    ELSE (IF bits[i + 1] THEN <<from_index(i)>> ELSE <<>>) \o iter_from(bits, i + 1)

\* Variant: the set bits are yielded from the highest index down.
iter_reversed(bits) ==
    LET y == iter_from(bits, 0)
    IN  [j \in 1..Len(y) |-> y[Len(y) + 1 - j]]

\* Variant: the iteration starts one index late.
iter_skips_first(bits) == iter_from(bits, 1)

iter(bits) == iter_from(bits, 0)

----------------------------------------------------------------------------
(* uinput.rs: VirtualDeviceBuilder *)

\* new(): the handle is opened; the name is empty and no id is given.
VirtualDeviceBuilder_new(ok, e) ==
    IF ok THEN BuilderOk(<<>>, [some |-> TRUE, name |-> <<>>, id |-> NoId])
    ELSE BuilderErr(e, <<>>, NoBuilder)

name(self, n) == [self EXCEPT !.name = n]

input_id(self, id) == [self EXCEPT !.id = [some |-> TRUE, id |-> id]]

\* Variant: the per-code loop goes on after a failed declaration.
with_keys_goes_on(self, keys, k, e) ==
    LET ev == ioctl("UI_SET_EVBIT", EV_KEY, k >= 1, e)
        bits == iter(keys)
        loop == [i \in 1..Len(bits) |-> ioctl("UI_SET_KEYBIT", bits[i], i /= k, e)]
    IN  IF ~ev.ok THEN BuilderErr(e, <<ev>>, NoBuilder)
        ELSE IF k <= Len(bits) THEN BuilderErr(e, <<ev>> \o loop, NoBuilder)
        ELSE BuilderOk(<<ev>> \o loop, self)

\* Variant: a failed declaration hands the builder back.
with_keys_keeps_self(self, keys, k, e) ==
    LET ev == ioctl("UI_SET_EVBIT", EV_KEY, k >= 1, e)
        bits == iter(keys)
        loop == [i \in 1..Min(Len(bits), k) |->
                    ioctl("UI_SET_KEYBIT", bits[i], i < k, e)]
    IN  IF ~ev.ok THEN BuilderErr(e, <<ev>>, self)
        ELSE IF k <= Len(bits) THEN BuilderErr(e, <<ev>> \o loop, self)
        ELSE BuilderOk(<<ev>> \o loop, self)

\* with_keys(self, keys).  The kernel lets the first k ioctls of this call
\* succeed and fails the next one with e.  The category declaration is call
\* 1, the declaration of the i-th code of keys.iter() is call i + 1.
with_keys(self, keys, k, e) ==
    LET ev == ioctl("UI_SET_EVBIT", EV_KEY, k >= 1, e)
        bits == iter(keys)
        loop == [i \in 1..Min(Len(bits), k) |->
                    ioctl("UI_SET_KEYBIT", bits[i], i < k, e)]
    IN  IF ~ev.ok THEN BuilderErr(e, <<ev>>, NoBuilder)
        ELSE IF k <= Len(bits) THEN BuilderErr(e, <<ev>> \o loop, NoBuilder)
        ELSE BuilderOk(<<ev>> \o loop, self)

\* with_relative_axes(self, axes): the same protocol for the RELATIVE category.
with_relative_axes(self, axes, k, e) ==
    LET ev == ioctl("UI_SET_EVBIT", EV_REL, k >= 1, e)
        bits == iter(axes)
        loop == [i \in 1..Min(Len(bits), k) |->
                    ioctl("UI_SET_RELBIT", bits[i], i < k, e)]
    IN  IF ~ev.ok THEN BuilderErr(e, <<ev>>, NoBuilder)
        ELSE IF k <= Len(bits) THEN BuilderErr(e, <<ev>> \o loop, NoBuilder)
        ELSE BuilderOk(<<ev>> \o loop, self)

\* Variant: the assertion compares with <= instead of <.
NameFits_off_by_one(n) == Len(n) + 1 <= UINPUT_MAX_NAME_SIZE

\* The assertion of build: the name and its null terminator fit the buffer.
NameFits(n) == Len(n) + 1 < UINPUT_MAX_NAME_SIZE

\* Variant: the id given to input_id is not looked at.
usetup_of_ignores_id(self) ==
    [id |-> DEFAULT_ID,
     name |-> [i \in 1..UINPUT_MAX_NAME_SIZE |->
                  IF i <= Len(self.name) THEN self.name[i] ELSE 0],
     ff_effects_max |-> 0]

\* Variant: the name buffer starts out filled with spaces, not zeros.
usetup_of_space_filled(self) ==
    [id |-> IF self.id.some THEN self.id.id ELSE DEFAULT_ID,
     name |-> [i \in 1..UINPUT_MAX_NAME_SIZE |->
                  IF i <= Len(self.name) THEN self.name[i] ELSE 32],
     ff_effects_max |-> 0]

\* The uinput_setup record build populates: the name is copied into a
\* zero-initialised buffer of UINPUT_MAX_NAME_SIZE bytes.
usetup_of(self) ==
    [id |-> IF self.id.some THEN self.id.id ELSE DEFAULT_ID,
     name |-> [i \in 1..UINPUT_MAX_NAME_SIZE |->
                  IF i <= Len(self.name) THEN self.name[i] ELSE 0],
     ff_effects_max |-> 0]

\* Variant: the result of the setup call is not looked at.
VirtualDevice_new_unchecked_setup(usetup, s, c, e) ==
    LET st == ioctl_setup(usetup, s, e)
        cr == ioctl("UI_DEV_CREATE", 0, c, e)
    IN  IF ~cr.ok THEN DeviceErr(e, <<st, cr>>)
        ELSE DeviceOk(<<st, cr>>)

\* Variant: create is issued before setup.
VirtualDevice_new_create_first(usetup, s, c, e) ==
    LET st == ioctl_setup(usetup, s, e)
        cr == ioctl("UI_DEV_CREATE", 0, c, e)
    IN  IF ~cr.ok THEN DeviceErr(e, <<cr>>)
        ELSE IF ~st.ok THEN DeviceErr(e, <<cr, st>>)
        ELSE DeviceOk(<<cr, st>>)

\* VirtualDevice::new(file, usetup): setup, then create; s and c are the
\* kernel's outcomes of the two ioctls, e the error of the one that fails.
VirtualDevice_new(usetup, s, c, e) ==
    LET st == ioctl_setup(usetup, s, e)
        cr == ioctl("UI_DEV_CREATE", 0, c, e)
    IN  IF ~st.ok THEN DeviceErr(e, <<st>>)
        ELSE IF ~cr.ok THEN DeviceErr(e, <<st, cr>>)
        ELSE DeviceOk(<<st, cr>>)

\* build(self): the assertion, then VirtualDevice::new.
build(self, s, c, e) ==
    IF ~NameFits(self.name) THEN DevicePanic
    ELSE VirtualDevice_new(usetup_of(self), s, c, e)

----------------------------------------------------------------------------
(* uinput.rs: VirtualDevice *)

\* What the kernel may answer to one write of buf: it accepts n records, or
\* fails with an error (EINTR among them).
KernelWrite(buf) ==
    {[ok |-> TRUE, n |-> n, err |-> ""] : n \in 0..Len(buf)} \cup
    {[ok |-> FALSE, n |-> 0, err |-> e] : e \in WriteErrnos \cup {"EINTR"}}

\* Variant: one write call per buffer; a short or interrupted write is an
\* error.
write_all_once(buf, budget) ==
    IF buf = <<>> THEN {Ok(<<>>)}
    ELSE {LET c == write(buf, o.ok, o.n, o.err)
          IN  IF o.ok /\ o.n = Len(buf) THEN Ok(<<c>>)
              ELSE Err(IF o.ok THEN "WriteZero" ELSE o.err, <<c>>)
          : o \in KernelWrite(buf)}

\* File::write_all(buf), over every answer of the kernel, in at most budget
\* write calls: loops until the buffer is empty; Ok(0) is the WriteZero
\* error, EINTR is retried, any other error is returned.
RECURSIVE write_all(_, _)
write_all(buf, budget) ==
    IF buf = <<>> THEN {Ok(<<>>)}
    ELSE IF budget = 0 THEN {}
    ELSE UNION {
        LET c == write(buf, o.ok, o.n, o.err)
        IN  IF o.ok /\ o.n = 0 THEN {Err("WriteZero", <<c>>)}
            ELSE IF o.ok THEN
                {[r EXCEPT !.calls = <<c>> \o @] :
                    r \in write_all(SubSeq(buf, o.n + 1, Len(buf)), budget - 1)}
            ELSE IF o.err = "EINTR" THEN
                {[r EXCEPT !.calls = <<c>> \o @] : r \in write_all(buf, budget - 1)}
            ELSE {Err(o.err, <<c>>)}
        : o \in KernelWrite(buf)}

write_raw(messages) == write_all(messages, MaxSyscalls)

\* InputEvent::new(EventType::SYNCHRONIZATION, 0, 0)
syn == [type |-> EV_SYN, code |-> 0, value |-> 0]

\* Variant: the SYN_REPORT is not written.
emit_without_syn(messages) == write_raw(messages)

\* Variant: the SYN_REPORT is written whatever the batch write returned.
emit_syn_always(messages) ==
    UNION {
        {[w2 EXCEPT !.calls = w1.calls \o @,
                    !.res = IF w1.res /= "Ok" THEN w1.res ELSE @,
                    !.err = IF w1.res /= "Ok" THEN w1.err ELSE @] :
            w2 \in write_raw(<<syn>>)}
        : w1 \in write_raw(messages)}

\* Variant: the result of the SYN_REPORT write is dropped.
emit_drops_syn_result(messages) ==
    UNION {
        IF w1.res /= "Ok" THEN {w1}
        ELSE {Ok(w1.calls \o w2.calls) : w2 \in write_raw(<<syn>>)}
        : w1 \in write_raw(messages)}

\* Variant: the SYN_REPORT is written before the batch.
emit_syn_first(messages) ==
    UNION {
        IF w1.res /= "Ok" THEN {w1}
        ELSE {[w2 EXCEPT !.calls = w1.calls \o @] : w2 \in write_raw(messages)}
        : w1 \in write_raw(<<syn>>)}

\* emit(messages), over every answer of the kernel: the batch, then the
\* SYN_REPORT; an error of either write is returned at once.
emit(messages) ==
    UNION {
        IF w1.res /= "Ok" THEN {w1}
        ELSE {[w2 EXCEPT !.calls = w1.calls \o @] : w2 \in write_raw(<<syn>>)}
        : w1 \in write_raw(messages)}

----------------------------------------------------------------------------
(* The state machine *)

Count(calls, op) == Cardinality({i \in DOMAIN calls : calls[i].op = op})
Succeeded(calls, op) == \E i \in DOMAIN calls : calls[i].op = op /\ calls[i].ok

Init ==
    /\ builder = NoBuilder
    /\ device = FALSE
    /\ fileOpen = FALSE
    /\ live = FALSE
    /\ wire = <<>>
    /\ issued = <<>>
    /\ last = [op |-> "init", res |-> "Ok", err |-> ""]
    /\ arg = NoArg
    /\ declFailed = FALSE
    /\ nSetup = 0
    /\ nCreate = 0
    /\ setupDone = FALSE
    /\ bitslice = <<>>
    /\ answer = NoAnswer

\* The bookkeeping every operation shares: what it returned and the kernel
\* calls it issued.
Returned(op, r, a) ==
    /\ last' = [op |-> op, res |-> r.res, err |-> r.err]
    /\ issued' = r.calls
    /\ arg' = a
    /\ nSetup' = nSetup + Count(r.calls, "UI_DEV_SETUP")
    /\ nCreate' = nCreate + Count(r.calls, "UI_DEV_CREATE")
    /\ setupDone' = (setupDone \/ Succeeded(r.calls, "UI_DEV_SETUP"))
    /\ wire' = wire \o Accepted(r.calls)
    /\ declFailed' = (declFailed \/ \E i \in DOMAIN r.calls :
                                        IsDecl(r.calls[i]) /\ ~r.calls[i].ok)
    /\ UNCHANGED <<bitslice, answer>>

\* VirtualDeviceBuilder::new()
New ==
    /\ last.op = "init"
    /\ \E ok \in BOOLEAN, e \in Errnos :
        LET r == VirtualDeviceBuilder_new(ok, e)
        IN  /\ builder' = r.self
            /\ fileOpen' = r.self.some
            /\ Returned("new", r, NoArg)
    /\ UNCHANGED <<device, live>>

\* builder.name(n)
Name ==
    /\ builder.some
    /\ \E n \in Names :
        /\ builder' = name(builder, n)
        /\ Returned("name", Ok(<<>>), NoArg)
    /\ UNCHANGED <<device, fileOpen, live>>

\* builder.input_id(id)
InputId ==
    /\ builder.some
    /\ \E id \in InputIds :
        /\ builder' = input_id(builder, id)
        /\ Returned("input_id", Ok(<<>>), IdArg(id))
    /\ UNCHANGED <<device, fileOpen, live>>

\* builder.with_keys(keys): the builder is moved in; it comes back only in
\* Ok(self), otherwise it is dropped and its handle closed.
WithKeys ==
    /\ builder.some
    /\ \E keys \in BitBufs, k \in 0..(MaxBits + 1), e \in Errnos :
        LET r == with_keys(builder, keys, k, e)
        IN  /\ builder' = r.self
            /\ fileOpen' = r.self.some
            /\ Returned("with_keys", r, SetArg(keys))
    /\ UNCHANGED <<device, live>>

\* builder.with_relative_axes(axes)
WithRelativeAxes ==
    /\ builder.some
    /\ \E axes \in BitBufs, k \in 0..(MaxBits + 1), e \in Errnos :
        LET r == with_relative_axes(builder, axes, k, e)
        IN  /\ builder' = r.self
            /\ fileOpen' = r.self.some
            /\ Returned("with_relative_axes", r, SetArg(axes))
    /\ UNCHANGED <<device, live>>

\* Variant: build borrows the builder, so a failed build leaves the builder
\* and its open handle behind.
BuildKeepingHandle ==
    /\ builder.some
    /\ \E s \in BOOLEAN, c \in BOOLEAN, e \in Errnos :
        LET r == build(builder, s, c, e)
        IN  /\ device' = r.dev
            /\ fileOpen' = TRUE
            /\ live' = (r.dev /\ Succeeded(r.calls, "UI_DEV_CREATE"))
            /\ builder' = IF r.dev THEN NoBuilder ELSE builder
            /\ Returned("build", r, SelfArg(builder))

\* builder.build(): the builder is consumed; the handle moves into the
\* device on Ok and is dropped (closed) otherwise.  The kernel registers the
\* device when UI_DEV_CREATE succeeds and unregisters it when the handle is
\* closed.
Build ==
    /\ builder.some
    /\ \E s \in BOOLEAN, c \in BOOLEAN, e \in Errnos :
        LET r == build(builder, s, c, e)
        IN  /\ device' = r.dev
            /\ fileOpen' = r.dev
            /\ live' = (r.dev /\ Succeeded(r.calls, "UI_DEV_CREATE"))
            /\ Returned("build", r, SelfArg(builder))
    /\ builder' = NoBuilder

\* Variant: emit takes the device by value, so a failed emit drops it.
EmitConsuming ==
    /\ device
    /\ Len(wire) < MaxWire
    /\ \E messages \in Batches :
        \E r \in emit(messages) :
            /\ Returned("emit", r, MessagesArg(messages))
            /\ device' = (r.res = "Ok")
            /\ fileOpen' = (r.res = "Ok")
            /\ live' = (r.res = "Ok")
    /\ UNCHANGED builder

\* Variant: a failed emit poisons the device: the next emit returns the same
\* error without writing.
EmitLatchingError ==
    /\ device
    /\ Len(wire) < MaxWire
    /\ \E messages \in Batches :
        \E r \in (IF last.op = "emit" /\ last.res = "Err"
                  THEN {Err(last.err, <<>>)} ELSE emit(messages)) :
            Returned("emit", r, MessagesArg(messages))
    /\ UNCHANGED <<builder, device, fileOpen, live>>

\* device.emit(messages): borrows the device; the handle stays with it.
\* Emission is followed while fewer than MaxWire records are on the wire.
Emit ==
    /\ device
    /\ Len(wire) < MaxWire
    /\ \E messages \in Batches :
        \E r \in emit(messages) :
            Returned("emit", r, MessagesArg(messages))
    /\ UNCHANGED <<builder, device, fileOpen, live>>

\* The builder goes out of scope without build: its File is dropped.
DropBuilder ==
    /\ builder.some
    /\ builder' = NoBuilder
    /\ fileOpen' = FALSE
    /\ Returned("drop_builder", Ok(<<>>), NoArg)
    /\ UNCHANGED <<device, live>>

\* The device goes out of scope: its File is dropped, the handle is closed
\* and the kernel unregisters the device.
DropDevice ==
    /\ device
    /\ device' = FALSE
    /\ fileOpen' = FALSE
    /\ live' = FALSE
    /\ Returned("drop_device", Ok(<<>>), NoArg)
    /\ UNCHANGED builder

Next ==
    \/ New
    \/ Name
    \/ InputId
    \/ WithKeys
    \/ WithRelativeAxes
    \/ Build
    \/ Emit
    \/ DropBuilder
    \/ DropDevice

Spec == Init /\ [][Next]_vars

----------------------------------------------------------------------------
(* The attribute set on its own: one borrowed bit buffer, queried by       *)
(* contains and iter, and the index conversions of its code type.          *)

AttributeSet_new ==
    /\ bitslice \in Slices
    /\ answer = NoAnswer
    /\ builder = NoBuilder
    /\ device = FALSE
    /\ fileOpen = FALSE
    /\ live = FALSE
    /\ wire = <<>>
    /\ issued = <<>>
    /\ last = [op |-> "init", res |-> "Ok", err |-> ""]
    /\ arg = NoArg
    /\ declFailed = FALSE
    /\ nSetup = 0
    /\ nCreate = 0
    /\ setupDone = FALSE

\* The variables of the control handle, which no query touches.
handleVars == <<builder, device, fileOpen, live, wire, issued, last, arg,
                declFailed, nSetup, nCreate, setupDone>>

\* set.contains(attr)
Contains ==
    /\ \E attr \in Codes :
        answer' = [answer EXCEPT !.op = "contains", !.attr = attr,
                                 !.index = to_index(attr),
                                 !.found = contains(bitslice, attr)]
    /\ UNCHANGED <<handleVars, bitslice>>

\* set.iter(), collected
Iter ==
    /\ answer' = [answer EXCEPT !.op = "iter", !.iterated = TRUE,
                                 !.yielded = iter(bitslice)]
    /\ UNCHANGED <<handleVars, bitslice>>

\* attr.to_index()
ToIndex ==
    /\ \E attr \in Codes :
        answer' = [answer EXCEPT !.op = "to_index", !.attr = attr,
                                 !.index = to_index(attr)]
    /\ UNCHANGED <<handleVars, bitslice>>

\* T::from_index(i)
FromIndex ==
    /\ \E i \in Indices :
        answer' = [answer EXCEPT !.op = "from_index", !.index = i,
                                 !.back = from_index(i),
                                 !.ofLast = (answer.op = "to_index" /\ i = answer.index)]
    /\ UNCHANGED <<handleVars, bitslice>>

AttributeSetNext ==
    \/ Contains
    \/ Iter
    \/ ToIndex
    \/ FromIndex

AttributeSetSpec == AttributeSet_new /\ [][AttributeSetNext]_vars

----------------------------------------------------------------------------
(* Properties *)

\* The synchronization record as the kernel interface defines it.
SynRecord == [type |-> 0, code |-> 0, value |-> 0]

IsSuffix(s, t) == \E k \in 0..Len(t) : s = SubSeq(t, k + 1, Len(t))

\* A write call after which write_all gives up: Ok(0), or an error other
\* than EINTR.
WriteFails(c) == c.op = "write" /\ ((c.ok /\ c.n = 0) \/ (~c.ok /\ c.err /= "EINTR"))
WriteError(c) == IF c.ok THEN "WriteZero" ELSE c.err

\* In the last emit, the write of the batch / of the synchronization record
\* failed.  A call of the batch write carries a non-empty suffix of the
\* batch, the synchronization write carries the one synchronization record.
BatchWriteFailed(calls, batch) ==
    \E i \in DOMAIN calls :
        WriteFails(calls[i]) /\ calls[i].buf /= <<SynRecord>> /\ IsSuffix(calls[i].buf, batch)
SynWriteAttempted(calls) ==
    \E i \in DOMAIN calls : calls[i].op = "write" /\ calls[i].buf = <<SynRecord>>
SynWriteFailed(calls) ==
    \E i \in DOMAIN calls : WriteFails(calls[i]) /\ calls[i].buf = <<SynRecord>>
SynWriteSucceeded(calls) ==
    \E i \in DOMAIN calls :
        calls[i].op = "write" /\ calls[i].buf = <<SynRecord>> /\ calls[i].ok /\ calls[i].n = 1

\* C1: an emit of n events whose two writes both succeed appends exactly
\* n + 1 records to the wire: the caller's events in the caller's order, then
\* one synchronization record (type 0, code 0, value 0).
C1_EmitAppendsBatchThenSyn ==
    [][(last'.op = "emit" /\ last'.res = "Ok")
         => /\ wire' = wire \o arg'.messages \o <<SynRecord>>
            /\ Len(wire') = Len(wire) + Len(arg'.messages) + 1]_vars

C1_Witness ==
    /\ last.op = "emit" /\ last.res = "Ok"
    /\ Len(arg.messages) = 2 /\ arg.messages[1] /= arg.messages[2]
    /\ wire = arg.messages \o <<SynRecord>>

\* C2: when the write of the batch fails, emit returns that write's error and
\* issues no write of the synchronization record.
C2_BatchFailureSkipsSyn ==
    (last.op = "emit" /\ BatchWriteFailed(issued, arg.messages))
        => /\ last.res = "Err"
           /\ WriteFails(issued[Len(issued)])
           /\ last.err = WriteError(issued[Len(issued)])
           /\ ~SynWriteAttempted(issued)
           /\ \A i \in DOMAIN issued : IsSuffix(issued[i].buf, arg.messages)

C2_Witness ==
    /\ last.op = "emit" /\ last.res = "Err" /\ last.err = "EIO"
    /\ Len(arg.messages) = 2
    /\ BatchWriteFailed(issued, arg.messages)
    /\ Len(wire) = 1

\* C3: when the batch write succeeds and the synchronization write fails,
\* emit returns the synchronization write's error and the wire has gained the
\* batch with no synchronization record after it; emit returns Ok only when
\* the synchronization write succeeded.
C3_SynFailureIsReturned ==
    [][(last'.op = "emit")
         => /\ (SynWriteFailed(issued') /\ ~BatchWriteFailed(issued', arg'.messages))
                 => /\ last'.res = "Err"
                    /\ last'.err = WriteError(issued'[Len(issued')])
                    /\ issued'[Len(issued')].buf = <<SynRecord>>
                    /\ wire' = wire \o arg'.messages
            /\ (last'.res = "Ok") => (SynWriteSucceeded(issued') /\ ~SynWriteFailed(issued'))]_vars

C3_Witness ==
    /\ last.op = "emit" /\ last.res = "Err"
    /\ SynWriteFailed(issued)
    /\ Len(arg.messages) = 2
    /\ wire = arg.messages

\* C4: the device is live in the kernel only if setup and then create both
\* succeeded on the handle; no failed declaration, failed setup, failed
\* create or aborted build leaves a live device.
C4_LiveOnlyAfterSetupAndCreate ==
    /\ live => (setupDone /\ nSetup = 1 /\ nCreate = 1 /\ device /\ fileOpen)
    /\ (last.op = "build" /\ live)
         => /\ Len(issued) = 2
            /\ issued[1].op = "UI_DEV_SETUP" /\ issued[1].ok
            /\ issued[2].op = "UI_DEV_CREATE" /\ issued[2].ok
    /\ (last.op \in {"new", "with_keys", "with_relative_axes", "build"} /\ last.res /= "Ok")
         => ~live
    /\ declFailed => ~live

C4_Witness ==
    /\ last.op = "build" /\ last.res = "Ok" /\ live

\* The calls issued before position i of one operation's calls.
Before(calls, i) == SubSeq(calls, 1, i - 1)

\* C5: on the handle, capability declarations come first, then setup, then
\* create, then event writes: no declaration is issued once setup or create
\* was issued, setup is not issued after create, create is issued only after
\* a setup that succeeded, and a write only after a create that succeeded.
C5_KernelCallOrder ==
    [][\A i \in DOMAIN issued' :
         LET c == issued'[i]
             b == Before(issued', i)
         IN  /\ IsDecl(c) =>
                    /\ nSetup = 0 /\ nCreate = 0
                    /\ Count(b, "UI_DEV_SETUP") = 0 /\ Count(b, "UI_DEV_CREATE") = 0
             /\ c.op = "UI_DEV_SETUP" =>
                    (nCreate = 0 /\ Count(b, "UI_DEV_CREATE") = 0)
             /\ c.op = "UI_DEV_CREATE" =>
                    (setupDone \/ Succeeded(b, "UI_DEV_SETUP"))
             /\ c.op = "write" =>
                    /\ live \/ Succeeded(b, "UI_DEV_CREATE")
                    /\ i < Len(issued') => issued'[i + 1].op = "write"]_vars

C5_Witness ==
    /\ last.op = "emit"
    /\ Count(issued, "write") >= 2
    /\ nSetup = 1 /\ nCreate = 1 /\ setupDone

\* C6: a builder is single-use: after build (whatever it returned) and after
\* a failed with_keys / with_relative_axes no builder is left to operate on,
\* so setup and create are issued at most once on the handle; while the
\* handle is open exactly one of builder and device holds it.
C6_BuilderIsSingleUse ==
    /\ ~(builder.some /\ device)
    /\ fileOpen <=> (builder.some \/ device)
    /\ nSetup <= 1 /\ nCreate <= 1
    /\ last.op = "build" => ~builder.some
    /\ (last.op \in {"with_keys", "with_relative_axes"} /\ last.res /= "Ok") => ~builder.some
    /\ (declFailed \/ nSetup > 0 \/ nCreate > 0) => ~builder.some
    /\ declFailed => ~device

C6_Witness ==
    /\ last.op = "build" /\ last.res = "Err"
    /\ nSetup = 1 /\ nCreate = 1
    /\ ~builder.some /\ ~device /\ ~fileOpen

\* C7 as stated: build returns Ok exactly when the name's length L has
\* L + 1 < M, and aborts before any kernel call otherwise.
C7_SucceedsIffNameFits ==
    last.op = "build"
        => /\ (last.res = "Ok") <=> (Len(arg.self.name) + 1 < UINPUT_MAX_NAME_SIZE)
           /\ (Len(arg.self.name) + 1 >= UINPUT_MAX_NAME_SIZE)
                  => (last.res = "Panic" /\ issued = <<>>)

\* C7, amended: build passes its length check exactly when L + 1 < M, and
\* then returns Ok exactly when the setup and the create call both succeed;
\* for L + 1 >= M it aborts before any kernel call (setup or create).
C7_ChecksNameBeforeKernelCalls ==
    last.op = "build"
        => /\ (last.res /= "Panic") <=> (Len(arg.self.name) + 1 < UINPUT_MAX_NAME_SIZE)
           /\ (last.res = "Ok")
                  <=> /\ Len(arg.self.name) + 1 < UINPUT_MAX_NAME_SIZE
                      /\ Len(issued) = 2
                      /\ issued[1].op = "UI_DEV_SETUP" /\ issued[1].ok
                      /\ issued[2].op = "UI_DEV_CREATE" /\ issued[2].ok
           /\ (Len(arg.self.name) + 1 >= UINPUT_MAX_NAME_SIZE)
                  => /\ last.res = "Panic"
                     /\ issued = <<>>
                     /\ nSetup = 0 /\ nCreate = 0
                     /\ ~live /\ ~device

C7_Witness ==
    /\ last.op = "build" /\ last.res = "Panic"
    /\ Len(arg.self.name) + 1 = UINPUT_MAX_NAME_SIZE

\* The indices of the set bits of a bit buffer.
SetBits(bits) == {i \in 0..(Len(bits) - 1) : bits[i + 1]}

\* The calls of a successful declaration of category ev with per-code call
\* op for the set bits: the category first, then one call per set bit.
DeclaresExactly(calls, ev, op, bits) ==
    /\ Len(calls) = 1 + Cardinality(SetBits(bits))
    /\ calls[1].op = "UI_SET_EVBIT" /\ calls[1].code = ev /\ calls[1].ok
    /\ \A j \in 2..Len(calls) :
          calls[j].op = op /\ calls[j].ok /\ calls[j].code \in SetBits(bits)
    /\ \A i \in SetBits(bits) :
          Cardinality({j \in 2..Len(calls) : calls[j].code = i}) = 1

\* C8: a with_keys / with_relative_axes call whose kernel calls all succeed
\* issues the category declaration first, then exactly one per-code
\* declaration for each code in the set and none for any other code; for
\* the empty set it issues the category declaration alone.
C8_OneDeclarationPerCode ==
    /\ (last.op = "with_keys" /\ last.res = "Ok")
          => DeclaresExactly(issued, 1, "UI_SET_KEYBIT", arg.set)
    /\ (last.op = "with_relative_axes" /\ last.res = "Ok")
          => DeclaresExactly(issued, 2, "UI_SET_RELBIT", arg.set)
    /\ (last.op \in {"with_keys", "with_relative_axes"} /\ last.res = "Ok"
            /\ SetBits(arg.set) = {})
          => Len(issued) = 1

C8_Witness ==
    /\ last.op = "with_keys" /\ last.res = "Ok"
    /\ arg.set = <<TRUE, FALSE>>
    /\ Len(issued) = 2

\* C9: when a declaration of with_keys / with_relative_axes fails, the call
\* returns that error at once: the failed declaration is the last kernel
\* call on the handle (no further per-code declaration, no setup, no
\* create), and a failed category declaration is the only call issued.
C9_FailedDeclarationAborts ==
    /\ (last.op \in {"with_keys", "with_relative_axes"}
            /\ \E i \in DOMAIN issued : ~issued[i].ok)
          => /\ last.res = "Err"
             /\ ~issued[Len(issued)].ok
             /\ last.err = issued[Len(issued)].err
             /\ \A i \in 1..(Len(issued) - 1) : issued[i].ok
             /\ ~issued[1].ok => Len(issued) = 1
    /\ (last.op \in {"with_keys", "with_relative_axes"} /\ last.res = "Err")
          => \E i \in DOMAIN issued : ~issued[i].ok
    /\ declFailed
          => /\ last.op \in {"with_keys", "with_relative_axes"} /\ last.res = "Err"
             /\ nSetup = 0 /\ nCreate = 0

C9_Witness ==
    /\ last.op = "with_keys" /\ last.res = "Err"
    /\ arg.set = <<TRUE, TRUE>>
    /\ Len(issued) = 2
    /\ declFailed

\* C10: a live device stays live until its handle is released by dropping
\* the device; no emit, whatever it returns, destroys it, and once the
\* handle is released nothing is written to it.
C10_LiveUntilReleased ==
    /\ [](live => (device /\ fileOpen))
    /\ [](Count(issued, "write") > 0 => (device /\ fileOpen /\ live))
    /\ [][(live /\ ~live') => (last'.op = "drop_device" /\ ~fileOpen')]_vars
    /\ [][(live /\ last'.op = "emit") => (live' /\ device' /\ fileOpen')]_vars
    /\ [][~fileOpen' => wire' = wire]_vars
    /\ [][(~fileOpen /\ last.op /= "init") => (~fileOpen' /\ issued' = <<>>)]_vars

C10_Witness ==
    /\ last.op = "drop_device"
    /\ ~live /\ ~fileOpen
    /\ Len(wire) > 0

\* C13: for a bit buffer of length n and a code c, contains(c) is true
\* exactly when to_index(c) < n and the bit at to_index(c) is set; for
\* to_index(c) >= n it is false (and is evaluated without failing).
C13_ContainsIsBitInRange ==
    answer.op = "contains"
        => /\ answer.found \in BOOLEAN
           /\ answer.found <=> (/\ answer.index < Len(bitslice)
                                /\ bitslice[answer.index + 1])
           /\ answer.index >= Len(bitslice) => ~answer.found

C13_Witness ==
    /\ answer.op = "contains"
    /\ Len(bitslice) = 2 /\ bitslice[2]
    /\ answer.attr = CodeModulus - 1 /\ ~answer.found

\* C11: a failed emit leaves the device live and its handle open, and an
\* emit after it whose writes all succeed returns Ok and appends its whole
\* batch and then one synchronization record, as an emit on a device that
\* never saw a failure does.
C11_FailedEmitLeavesDeviceUsable ==
    /\ []((last.op = "emit" /\ last.res = "Err") => (device /\ fileOpen /\ live))
    /\ [][(last'.op = "emit" /\ \A i \in DOMAIN issued' : ~WriteFails(issued'[i]))
            => /\ last'.res = "Ok"
               /\ wire' = wire \o arg'.messages \o <<SynRecord>>
               /\ device' /\ fileOpen' /\ live']_vars

\* An emit has returned Ok after an earlier emit failed: the record before
\* this emit's own records is not a synchronization record.
C11_Witness ==
    /\ last.op = "emit" /\ last.res = "Ok"
    /\ Len(arg.messages) = 1
    /\ Len(wire) = 3
    /\ wire[1] /= SynRecord
    /\ wire[2] = arg.messages[1]

\* A write call that accepted its whole buffer.
WriteCompletes(c) == c.op = "write" /\ c.ok /\ c.n = Len(c.buf)

\* C12 as stated: the batch goes out as one write and the synchronization
\* record as one further write, so an emit issues at most two write calls,
\* and a write that fails or is short is followed by no other write.
C12_AtMostTwoWritesNoRetry ==
    last.op = "emit"
        => /\ Count(issued, "write") <= 2
           /\ \A i \in 1..(Len(issued) - 1) : WriteCompletes(issued[i])
           /\ arg.messages /= <<>> => issued[1].buf = arg.messages

\* What write_all hands to the next write call after call c, which neither
\* ended the emit nor completed the synchronization write.
NextBuffer(c) ==
    IF ~c.ok THEN c.buf
    ELSE IF c.n < Len(c.buf) THEN SubSeq(c.buf, c.n + 1, Len(c.buf))
    ELSE <<SynRecord>>

\* C12, amended: emit writes the batch and then the synchronization record,
\* each until it is wholly written: after a short write the next call
\* carries the records not yet accepted, after an interrupted write (EINTR)
\* the same buffer again; a write that accepts nothing or fails with another
\* error ends the emit at once.  An empty batch takes no write call.  An
\* emit with no short and no interrupted write issues at most two calls.
C12_WritesUntilWhollyWritten ==
    last.op = "emit"
        => /\ Len(issued) >= 1
           /\ \A i \in DOMAIN issued : issued[i].op = "write" /\ issued[i].buf /= <<>>
           /\ issued[1].buf = IF arg.messages = <<>> THEN <<SynRecord>> ELSE arg.messages
           /\ \A i \in 1..(Len(issued) - 1) :
                 /\ ~WriteFails(issued[i])
                 /\ ~(WriteCompletes(issued[i]) /\ issued[i].buf = <<SynRecord>>)
                 /\ issued[i + 1].buf = NextBuffer(issued[i])
           /\ LET c == issued[Len(issued)]
              IN  \/ WriteFails(c) /\ last.res = "Err" /\ last.err = WriteError(c)
                  \/ /\ WriteCompletes(c) /\ c.buf = <<SynRecord>>
                     /\ last.res = "Ok"
           /\ last.err /= "EINTR"
           /\ (\A i \in DOMAIN issued : WriteCompletes(issued[i]) \/ WriteFails(issued[i]))
                 => Len(issued) <= 2

\* An emit of one event returned Ok after three write calls: the first was
\* interrupted and repeated.
C12_Witness ==
    /\ last.op = "emit" /\ last.res = "Ok"
    /\ Len(issued) = 3
    /\ ~issued[1].ok /\ issued[1].err = "EINTR"
    /\ issued[2].buf = issued[1].buf

\* The index of the j-th set bit of a buffer, counting from the lowest.
IndexOfRank(bits, j) ==
    CHOOSE i \in SetBits(bits) : Cardinality({k \in SetBits(bits) : k < i}) = j - 1

\* C14: iter() yields one code per set bit and none for a clear bit, the
\* code of the j-th lowest set index in place j (so in strictly ascending
\* index order), and an iter() right after an iter() on the same buffer
\* yields the same sequence.
C14_IterYieldsSetBitsAscending ==
    /\ [](answer.op = "iter"
            => /\ Len(answer.yielded) = Cardinality(SetBits(bitslice))
               /\ \A j \in DOMAIN answer.yielded :
                     answer.yielded[j] = IndexOfRank(bitslice, j) % CodeModulus
               /\ \A j \in DOMAIN answer.yielded :
                     \A k \in DOMAIN answer.yielded :
                        j < k => answer.yielded[j] < answer.yielded[k])
    /\ [][(answer.op = "iter" /\ answer'.op = "iter")
            => answer'.yielded = answer.yielded]_vars

C14_Witness ==
    /\ answer.op = "iter"
    /\ bitslice = <<TRUE, FALSE, TRUE>>
    /\ answer.yielded = <<0, 2>>

\* C15: from_index(to_index(c)) = c for every code c the code type can
\* hold, the largest one included.
C15_RoundTrip ==
    (answer.op = "from_index" /\ answer.ofLast) => answer.back = answer.attr

C15_Witness ==
    /\ answer.op = "from_index" /\ answer.ofLast
    /\ answer.attr = CodeModulus - 1
    /\ answer.back = CodeModulus - 1

\* C19: on a buffer no longer than the code type's range, contains(c) is
\* true exactly when iter() yields c.
C19_IterAgreesWithContains ==
    (answer.op = "contains" /\ answer.iterated /\ Len(bitslice) <= CodeModulus)
        => (answer.found <=> \E j \in DOMAIN answer.yielded :
                                 answer.yielded[j] = answer.attr)

C19_Witness ==
    /\ answer.op = "contains" /\ answer.iterated
    /\ bitslice = <<FALSE, FALSE, TRUE>>
    /\ answer.attr = 2 /\ answer.found
    /\ answer.yielded = <<2>>

\* build has issued the setup call.
SetupIssued == last.op = "build" /\ issued /= <<>> /\ issued[1].op = "UI_DEV_SETUP"

\* C16 as stated: the identification passed to the setup call is the fixed
\* default exactly when input_id was never called on the builder.
C16_DefaultIffNeverCalled ==
    SetupIssued => ((issued[1].usetup.id = DEFAULT_ID) <=> ~arg.self.id.some)

\* C16, amended: the identification passed to the setup call is the fixed
\* default when input_id was never called on the builder, and otherwise the
\* value given to the most recent input_id call (which may be the default's
\* own value); name and declaration calls in between leave it alone; the
\* force-feedback-effects count is 0.
C16_IdIsLastGivenOrDefault ==
    /\ []((last.op = "build" /\ last.res /= "Panic") => SetupIssued)
    /\ [](SetupIssued
            => /\ ~arg.self.id.some
                    => issued[1].usetup.id =
                          [bustype |-> 3, vendor |-> 4660, product |-> 22136, version |-> 273]
               /\ arg.self.id.some => issued[1].usetup.id = arg.self.id.id
               /\ issued[1].usetup.ff_effects_max = 0)
    /\ []((last.op = "new" /\ last.res = "Ok") => ~builder.id.some)
    /\ []((last.op = "input_id") => (builder.id.some /\ builder.id.id = arg.id))
    /\ [][(last'.op \in {"name", "with_keys", "with_relative_axes"} /\ builder'.some)
            => builder'.id = builder.id]_vars

\* The setup call carried an id given to input_id that is not the default,
\* on a builder that was also given a name.
C16_Witness ==
    /\ SetupIssued
    /\ arg.self.id.some
    /\ issued[1].usetup.id = [bustype |-> 6, vendor |-> 1, product |-> 2, version |-> 3]
    /\ arg.self.name /= <<>>

\* C17: for a name of length L that passes the length check, the name
\* buffer passed to the setup call has M bytes: the name in its first L
\* places and zero in every place after, the last one included; a builder
\* with the empty name it is born with passes the check and sends M zeros.
C17_NameBufferIsZeroPadded ==
    /\ SetupIssued
          => LET buf == issued[1].usetup.name
                 L == Len(arg.self.name)
             IN  /\ DOMAIN buf = 1..UINPUT_MAX_NAME_SIZE
                 /\ L + 1 < UINPUT_MAX_NAME_SIZE
                 /\ \A i \in 1..L : buf[i] = arg.self.name[i]
                 /\ \A i \in (L + 1)..UINPUT_MAX_NAME_SIZE : buf[i] = 0
                 /\ buf[UINPUT_MAX_NAME_SIZE] = 0
    /\ (last.op = "build" /\ arg.self.name = <<>>)
          => /\ SetupIssued
             /\ \A i \in 1..UINPUT_MAX_NAME_SIZE : issued[1].usetup.name[i] = 0
    /\ (last.op = "new" /\ last.res = "Ok") => builder.name = <<>>

\* The longest name that passes: M - 2 bytes, then two zeros.
C17_Witness ==
    /\ SetupIssued
    /\ Len(arg.self.name) = UINPUT_MAX_NAME_SIZE - 2
    /\ issued[1].usetup.name[UINPUT_MAX_NAME_SIZE - 2] /= 0
    /\ issued[1].usetup.name[UINPUT_MAX_NAME_SIZE - 1] = 0

\* C18: whenever an emit has just returned Ok the last record on the wire
\* is a synchronization record, so it follows every record written before
\* it; an emit that failed has put no synchronization record on the wire,
\* so the records it wrote stay at the end of the wire, in the frame that
\* the next successful emit closes.
C18_OkEmitClosesFrame ==
    /\ (last.op = "emit" /\ last.res = "Ok")
          => /\ wire /= <<>>
             /\ wire[Len(wire)] = SynRecord
             /\ \A i \in 1..(Len(wire) - 1) : \E j \in (i + 1)..Len(wire) : wire[j] = SynRecord
    /\ (last.op = "emit" /\ last.res = "Err")
          => /\ IsSuffix(Accepted(issued), wire)
             /\ \A i \in DOMAIN Accepted(issued) : Accepted(issued)[i] /= SynRecord

\* An emit of no events has closed the frame that a failed emit left open.
C18_Witness ==
    /\ last.op = "emit" /\ last.res = "Ok"
    /\ arg.messages = <<>>
    /\ Len(wire) = 2
    /\ wire[1] /= SynRecord /\ wire[2] = SynRecord

\* C20: when with_keys, with_relative_axes or build ends without Ok (a
\* failed declaration, the name-length abort, a failed setup, a failed
\* create after a setup that succeeded) the handle is closed: no builder and
\* no device holds it and nothing is registered in the kernel.
C20_FailureReleasesHandle ==
    /\ (last.op \in {"with_keys", "with_relative_axes", "build"} /\ last.res /= "Ok")
          => (~fileOpen /\ ~builder.some /\ ~device /\ ~live)
    /\ declFailed => ~fileOpen
    /\ (last.op = "build" /\ \E i \in DOMAIN issued : ~issued[i].ok) => ~fileOpen

\* A per-code declaration of with_relative_axes failed after its category
\* declaration succeeded, and the handle is closed.
C20_Witness ==
    /\ last.op = "with_relative_axes" /\ last.res = "Err"
    /\ Len(issued) = 2
    /\ issued[1].ok /\ ~issued[2].ok
    /\ ~fileOpen /\ ~builder.some

====
